---- MODULE Spec2Model ----
(***************************************************************************)
(* The time-window navigator and aggregator of the WaterLogger home screen *)
(* (src/app/(tabs)/index.tsx, src/components/chart/chartUtils.ts), and the *)
(* log store with its seeding (logStore.ts, seed.ts).                      *)
(*                                                                         *)
(* An instant (a JavaScript Date) is an integer number of minutes of local *)
(* time counted from 00:00 of 1 January (day 0).  The last instant of a    *)
(* day, 23:59:59.999, is the day's last minute; observations are drawn     *)
(* from earlier minutes of the day, so every comparison the code makes     *)
(* between an observation and an end-of-day keeps its outcome.             *)
(*                                                                         *)
(* The handlers are the transitions of the navigator: each can be called   *)
(* in every state, whether or not the control bound to it is enabled.      *)
(*                                                                         *)
(* The device's time zone either has no daylight saving or sets its clocks *)
(* back one hour at 03:00 of a day shortly before the session: getTime()   *)
(* is the only operation that sees the difference.  Observations are drawn *)
(* from outside the repeated hour, so local order is the order of getTime. *)
(***************************************************************************)
EXTENDS Integers, FiniteSets, Sequences, TLC

VARIABLES
    clock,         \* the instant new Date() returns
    zone           \* the device's time zone: "fixed" or "fallback"

(***************************************************************************)
(* Dates                                                                   *)
(***************************************************************************)

\* 24 * 60 * 60 * 1000 milliseconds, in minutes.
MinPerDay == 1440

MinPerHour == 60

\* The days of the months of a common year.
MonthLengths == <<31, 28, 31, 30, 31, 30, 31, 31, 30, 31, 30, 31>>

RECURSIVE DaysInMonths(_)
\* The days of the first m months.
DaysInMonths(m) == IF m = 0 THEN 0 ELSE MonthLengths[m] + DaysInMonths(m - 1)

DaysPerYear == DaysInMonths(12)

\* The calendar day an instant belongs to.
DayIndex(t) == t \div MinPerDay

\* Minutes elapsed since 00:00 of the instant's day.
TimeOfDay(t) == t % MinPerDay

RECURSIVE MonthOfYearDay(_, _)
\* The month (0 = January) holding the doy-th day of the year, scanning from month m.
MonthOfYearDay(doy, m) ==
    IF doy < MonthLengths[m + 1] THEN m ELSE MonthOfYearDay(doy - MonthLengths[m + 1], m + 1)

RECURSIVE DateOfYearDay(_, _)
\* The day of the month (from 1) of the doy-th day of the year.
DateOfYearDay(doy, m) ==
    IF doy < MonthLengths[m + 1] THEN doy + 1 ELSE DateOfYearDay(doy - MonthLengths[m + 1], m + 1)

\* Date.prototype.getMonth: 0..11.
GetMonth(t) == MonthOfYearDay(DayIndex(t) % DaysPerYear, 0)

\* Date.prototype.getDate: 1..31.
GetDate(t) == DateOfYearDay(DayIndex(t) % DaysPerYear, 0)

\* Date.prototype.getHours: 0..23.
GetHours(t) == TimeOfDay(t) \div MinPerHour

\* Date.prototype.setDate(v): day v of the instant's month, counted past either
\* end of the month, the time of day kept.
SetDate(t, v) == t + (v - GetDate(t)) * MinPerDay

\* Date.prototype.setHours(h, m, 0, 0).
SetHours(t, h, m) == DayIndex(t) * MinPerDay + h * MinPerHour + m

\* setHours(23, 59, 59, 999): the last instant of the day.
SetHoursEndOfDay(t) == DayIndex(t) * MinPerDay + (MinPerDay - 1)

\* setHours(0, 0, 0, 0): the first instant of the day.
SetHoursStartOfDay(t) == DayIndex(t) * MinPerDay

(***************************************************************************)
(* The clock and the time zone.  On the home screen new Date() returns the *)
(* same instant throughout a session.                                      *)
(***************************************************************************)

\* The calendar day of the session (11 April).
Today == 100

\* The session's time of day, 10:15.
NowTod == 615

\* The instant the session starts at.
SessionStart == Today * MinPerDay + NowTod

\* The clock is followed for this many days past the start of the session.
MaxElapsedDays == 1

\* new Date()
Now == clock

\* The time zones followed.
Zones == {"fixed", "fallback"}

\* The clocks of the "fallback" zone are set back this many days before the session.
DstEndDaysAgo == 2

\* 03:00 of the day the clocks are set back, on the clock in use before.
DstEnd == (Today - DstEndDaysAgo) * MinPerDay + 3 * MinPerHour

\* Minutes the local clock is ahead of the zone's standard time.
DstOffset(t) == IF zone = "fallback" /\ t < DstEnd THEN MinPerHour ELSE 0

\* Date.prototype.getTime, in minutes of the zone's standard time.
GetTime(t) == t - DstOffset(t)

\* const now = new Date(); now.setHours(23, 59, 59, 999)
NowEndOfDay == SetHoursEndOfDay(Now)

(***************************************************************************)
(* Time spans                                                              *)
(***************************************************************************)

TimeSpans == {"day", "week", "twoweeks", "month"}

getWindowLength(timespan) ==
    CASE timespan = "day" -> 1
      [] timespan = "week" -> 7
      [] timespan = "twoweeks" -> 14
      [] timespan = "month" -> 30
      [] OTHER -> 7

(***************************************************************************)
(* The data set                                                            *)
(***************************************************************************)

\* const totalDays = 60
TotalDays == 60

\* The largest number of log entries of a generated data set.
MaxEntries == 2

\* The day offsets the generator's loop is followed for: today, a day less than
\* a week back, and the oldest day.
DayOffsets == {0, 3, TotalDays - 1}

\* The <<hour, minute, amountCups, fatigue>> draws of Math.random() followed;
\* amountCups counts tenths of a cup (the generator rounds to one decimal).
Samples == {<<0, 0, 10, 2>>, <<23, 10, 20, 4>>}

\* One entry pushed by the generator's inner loop.
DemoEntry(dayOffset, hour, minute, cups, fatigue) ==
    LET today == SetHoursEndOfDay(Now)
        dayDate == SetHoursStartOfDay(SetDate(today, GetDate(today) - dayOffset))
    IN  [timestamp |-> SetHours(dayDate, hour, minute), amountCups |-> cups, fatigue |-> fatigue]

CandidateEntries ==
    {DemoEntry(off, s[1], s[2], s[3], s[4]) : off \in DayOffsets, s \in Samples}

\* The arrays generateFullDemoData() can return (any day may be skipped).
generateFullDemoData ==
    {d \in SUBSET CandidateEntries : Cardinality(d) <= MaxEntries}

Min(S) == CHOOSE x \in S : \A y \in S : x <= y

Max(S) == CHOOSE x \in S : \A y \in S : x >= y

VARIABLES
    fullData,      \* useState: the generated log entries
    timespan,      \* useState: the selected span
    currentDate,   \* useState: the END date of the current window
    last,          \* the handler that ran last: its name (op), its argument (arg),
                   \* currentDate and timespan when it was called (date, span), and
                   \* whether it returned from its clamping branch (clamped)
    roundTrip,     \* after a handleBack that directly followed a handleForward:
                   \* <<currentDate before the handleForward, whether it clamped>>
    processed,     \* the last call of processEntriesForChart followed on its own:
                   \* its arguments (entries, timespan) and what it returned (result)
    memo,          \* useMemo: the values kept from the render that computed them
                   \* last, dataBoundaries.earliest (earliest) and canGoForward
    usingMockFirebase,  \* firebase: the development build, without a backend
    currentUser,   \* auth.currentUser?.uid, or "none"
    mockStorage,   \* logStore: the Map of the mock implementation, as its values
    firestore,     \* the user's logEntries collection, as its documents
    logStore,      \* the zustand state: entries, isLoading, error
    calls,         \* the calls of the store awaiting a promise, by slot: the
                   \* function called (op), the await it stands at (pc), and its
                   \* locals
    idsUsed,       \* the number of entry ids handed out so far
    requests,      \* the number of requests to the backend the calls made so far
                   \* go through, a call that ends at the check of the user
                   \* counted as one
    lastStep,      \* the step of the store taken last: the function (op), its
                   \* id argument, whether it found a user (hadUser), how its
                   \* promise stands after the step (outcome), and, when the
                   \* call ended without having done its work, state.entries
                   \* and mockStorage before the step
    added,         \* the ids of the entries an addEntry call resolved with, less
                   \* those deleteEntry was called on or mockStorage.clear()
                   \* removed since
    seededDay      \* for the entries added by seedData, by id: the day offset i
                   \* of the loop that added them

vars == <<clock, zone, fullData, timespan, currentDate, last, roundTrip, processed, memo,
          usingMockFirebase, currentUser, mockStorage, firestore, logStore, calls, idsUsed,
          requests, lastStep, added, seededDay>>

(***************************************************************************)
(* The log store at rest                                                   *)
(***************************************************************************)

\* The largest number of calls of the store awaiting a promise at a time.
MaxCalls == 2

\* The largest number of entry ids handed out.
MaxIds == 2

\* The largest number of requests to the backend.
MaxRequests == 2

Slots == 1..MaxCalls

NoUser == "none"

NoEntry == [amountCups |-> 0, fatigue |-> 0, timestamp |-> 0]

\* A slot without a call.
IdleCall ==
    [op |-> "idle", pc |-> "idle", entry |-> NoEntry, id |-> 0, startDate |-> 0,
     snapshot |-> <<>>, batch |-> <<>>, plan |-> <<>>, seedDay |-> -1]

\* entries: [], isLoading: false, error: null
InitialLogState == [entries |-> <<>>, isLoading |-> FALSE, error |-> "null"]

NoStep ==
    [op |-> "none", id |-> 0, hadUser |-> TRUE, outcome |-> "none",
     entriesBefore |-> <<>>, storageBefore |-> {}]

\* The store as created, nothing called.
StoreCreated ==
    /\ mockStorage = {}
    /\ firestore = {}
    /\ logStore = InitialLogState
    /\ calls = [c \in Slots |-> IdleCall]
    /\ idsUsed = 0
    /\ requests = 0
    /\ lastStep = NoStep
    /\ added = {}
    /\ seededDay = <<>>

\* The home screen does not use the store.
StoreIdle ==
    /\ usingMockFirebase = TRUE
    /\ currentUser = NoUser
    /\ StoreCreated

StoreFrame ==
    UNCHANGED <<usingMockFirebase, currentUser, mockStorage, firestore, logStore, calls,
                idsUsed, requests, lastStep, added, seededDay>>

NoRoundTrip == <<>>

\* On the home screen no call of processEntriesForChart is followed on its own.
NoCall == [entries |-> {}, timespan |-> "week", result |-> <<>>]

\* What the home screen's handlers leave alone.
HomeScreenFrame ==
    /\ UNCHANGED <<clock, zone, processed>>
    /\ StoreFrame

Called(op, arg, isClamped) ==
    [op |-> op, arg |-> arg, date |-> currentDate, span |-> timespan, clamped |-> isClamped]

(***************************************************************************)
(* Derived values (useMemo)                                                *)
(***************************************************************************)

\* { windowStart, windowEnd } of an anchor and a span.
WindowEndOf(date) == SetHoursEndOfDay(date)

\* The window start taken a whole window length before the end.
WindowStartOf_FullLengthBack(date, span) ==
    LET end == WindowEndOf(date)
    IN  SetHoursStartOfDay(SetDate(end, GetDate(end) - getWindowLength(span)))

WindowStartOf(date, span) ==
    LET end == WindowEndOf(date)
    IN  SetHoursStartOfDay(SetDate(end, GetDate(end) - (getWindowLength(span) - 1)))

windowEnd == WindowEndOf(currentDate)

windowStart == WindowStartOf(currentDate, timespan)

\* The filter without its lower end.
EntriesOf_NoLowerBound(data, date, span) ==
    {e \in data : e.timestamp <= WindowEndOf(date)}

\* Filter data for the current window.
EntriesOf(data, date, span) ==
    {e \in data : e.timestamp >= WindowStartOf(date, span) /\ e.timestamp <= WindowEndOf(date)}

entries == EntriesOf(fullData, currentDate, timespan)

\* dataBoundaries.earliest: the scan starts from new Date().
EarliestOf(data) ==
    IF data = {} THEN Now
    ELSE Min({Now} \cup {e.timestamp : e \in data})

earliest == EarliestOf(fullData)

\* canGoBack refusing the step that lands exactly on the earliest entry.
CanGoBackOf_Strict(data, date, span) ==
    IF data = {} THEN FALSE
    ELSE LET ws == WindowStartOf(date, span)
             nextStart == SetDate(ws, GetDate(ws) - getWindowLength(span))
         IN  nextStart > EarliestOf(data)

\* Can we go back further?
CanGoBackOf(data, date, span) ==
    IF data = {} THEN FALSE
    ELSE LET ws == WindowStartOf(date, span)
             nextStart == SetDate(ws, GetDate(ws) - getWindowLength(span))
         IN  nextStart >= EarliestOf(data)

canGoBack == CanGoBackOf(fullData, currentDate, timespan)

\* Can we go forward?
CanGoForwardOf(date) == date < NowEndOfDay

canGoForward == CanGoForwardOf(currentDate)

\* The render after setCurrentDate: canGoForward is computed again (its
\* dependency is currentDate), dataBoundaries is kept.
MemoAfterDate(date) == [memo EXCEPT !.canGoForward = CanGoForwardOf(date)]

\* The render after setFullData and setCurrentDate: both are computed again.
MemoAfterData(data, date) == [earliest |-> EarliestOf(data), canGoForward |-> CanGoForwardOf(date)]

\* canGoBack as the back control reads it: computed in every render that
\* follows a change of the window, the span or the data, from the
\* dataBoundaries kept.
canGoBackShown ==
    IF fullData = {} THEN FALSE
    ELSE LET nextStart == SetDate(windowStart, GetDate(windowStart) - getWindowLength(timespan))
         IN  nextStart >= memo.earliest

\* canGoForward as the forward control reads it.
canGoForwardShown == memo.canGoForward

(***************************************************************************)
(* Chart data (chartUtils.ts)                                              *)
(***************************************************************************)

RECURSIVE WaterTotal(_)
\* waterTotal += entry.amountCups over a bucket's entries.
WaterTotal(S) ==
    IF S = {} THEN 0
    ELSE LET e == CHOOSE x \in S : TRUE IN e.amountCups + WaterTotal(S \ {e})

RECURSIVE FatigueSum(_)
\* fatigueSum += entry.fatigue over a bucket's entries.
FatigueSum(S) ==
    IF S = {} THEN 0
    ELSE LET e == CHOOSE x \in S : TRUE IN e.fatigue + FatigueSum(S \ {e})

RECURSIVE Gcd(_, _)
Gcd(a, b) == IF b = 0 THEN a ELSE Gcd(b, a % b)

\* The number a / b (b > 0), as the fraction <<numerator, denominator>> in lowest terms.
Quotient(a, b) == <<a \div Gcd(a, b), b \div Gcd(a, b)>>

\* The fatigue of a bucket summed and not divided.
AverageFatigue_SumOnly(S) ==
    IF Cardinality(S) # 0 THEN Quotient(FatigueSum(S), 1) ELSE Quotient(0, 1)

\* An empty bucket given the middle of the fatigue scale.
AverageFatigue_MidScaleWhenEmpty(S) ==
    IF Cardinality(S) # 0 THEN Quotient(FatigueSum(S), Cardinality(S)) ELSE Quotient(3, 1)

\* bucket.fatigueCount ? bucket.fatigueSum / bucket.fatigueCount : 0
AverageFatigue(S) ==
    IF Cardinality(S) # 0 THEN Quotient(FatigueSum(S), Cardinality(S)) ELSE Quotient(0, 1)

\* The hour taken modulo 12 as it is.
HourLabel_ZeroHour(i) ==
    LET hour == i % 12
        ampm == IF i < 12 THEN "AM" ELSE "PM"
    IN  ToString(hour) \o ampm

\* `${hour}${ampm}`
HourLabel(i) ==
    LET hour == IF i % 12 # 0 THEN i % 12 ELSE 12
        ampm == IF i < 12 THEN "AM" ELSE "PM"
    IN  ToString(hour) \o ampm

\* Group entries by hour (for day view).
groupEntriesByHour(es) ==
    LET bucket(i) == {e \in es : GetHours(e.timestamp) = i}
        water(i) == WaterTotal(bucket(i))
        fatigue(i) == AverageFatigue(bucket(i))
    IN  [labels |-> [k \in 1..24 |-> HourLabel(k - 1)],
         waterData |-> [k \in 1..24 |-> water(k - 1)],
         fatigueData |-> [k \in 1..24 |-> fatigue(k - 1)]]

\* windowEnd of groupEntriesByDay: the day of the latest entry, or today.
GroupWindowEnd(es) ==
    IF Cardinality(es) > 0
    THEN SetHoursEndOfDay(Max({e.timestamp : e \in es}))
    ELSE SetHoursEndOfDay(Now)

\* windowStart of groupEntriesByDay.
GroupWindowStart(es, days) ==
    LET end == GroupWindowEnd(es)
    IN  SetDate(SetHoursStartOfDay(end), GetDate(end) - (days - 1))

\* bucketIndex of groupEntriesByDay.
BucketIndex(e, start) == (GetTime(e.timestamp) - GetTime(start)) \div MinPerDay

\* `${d.getMonth() + 1}/${d.getDate()}`
DayLabel(d) == ToString(GetMonth(d) + 1) \o "/" \o ToString(GetDate(d))

\* Group entries by day within a window of the given length.
groupEntriesByDay(es, requestedDays) ==
    LET days == IF requestedDays <= 0 THEN 1 ELSE requestedDays
        start == GroupWindowStart(es, days)
        date(i) == SetDate(start, GetDate(start) + i)
        bucket(i) == {e \in es : BucketIndex(e, start) = i}
        label(i) == DayLabel(date(i))
        water(i) == WaterTotal(bucket(i))
        fatigue(i) == AverageFatigue(bucket(i))
    IN  [labels |-> [k \in 1..days |-> label(k - 1)],
         waterData |-> [k \in 1..days |-> water(k - 1)],
         fatigueData |-> [k \in 1..days |-> fatigue(k - 1)]]

processEntriesForChart_TwoWeeksAsWeek(es, span) ==
    CASE span = "day" -> groupEntriesByHour(es)
      [] span = "week" -> groupEntriesByDay(es, 7)
      [] span = "twoweeks" -> groupEntriesByDay(es, 7)
      [] span = "month" -> groupEntriesByDay(es, 30)
      [] OTHER -> groupEntriesByDay(es, 7)

\* Convert log entries to chart data based on timespan.
processEntriesForChart(es, span) ==
    CASE span = "day" -> groupEntriesByHour(es)
      [] span = "week" -> groupEntriesByDay(es, 7)
      [] span = "twoweeks" -> groupEntriesByDay(es, 14)
      [] span = "month" -> groupEntriesByDay(es, 30)
      [] OTHER -> groupEntriesByDay(es, 7)

\* The demo data shown when the window holds no entries.
DemoChartData ==
    [labels |-> <<"Mon", "Tue", "Wed", "Thu", "Fri", "Sat", "Sun">>,
     waterData |-> <<15, 22, 18, 0, 25, 12, 20>>,
     fatigueData |-> <<Quotient(3, 1), Quotient(2, 1), Quotient(4, 1), Quotient(5, 1),
                       Quotient(2, 1), Quotient(1, 1), Quotient(3, 1)>>]

ChartDataOf_DemoWhenSparse(es, span) ==
    IF Cardinality(es) <= 1 THEN DemoChartData ELSE processEntriesForChart(es, span)

\* chartData of the home screen.
ChartDataOf(es, span) ==
    IF Cardinality(es) = 0 THEN DemoChartData ELSE processEntriesForChart(es, span)

chartData == ChartDataOf(entries, timespan)

(***************************************************************************)
(* Handlers                                                                *)
(***************************************************************************)

\* The anchor left at the instant of mounting.
Init_AnchorIsNow ==
    /\ clock = SessionStart
    /\ zone \in Zones
    /\ processed = NoCall
    /\ fullData \in generateFullDemoData
    /\ timespan = "week"
    /\ currentDate = Now
    /\ last = [op |-> "mount", arg |-> "none", date |-> currentDate, span |-> timespan,
               clamped |-> FALSE]
    /\ roundTrip = NoRoundTrip
    /\ memo = MemoAfterData(fullData, currentDate)
    /\ StoreIdle

Init ==
    /\ clock = SessionStart
    /\ zone \in Zones
    /\ processed = NoCall
    /\ fullData \in generateFullDemoData
    /\ timespan = "week"
    /\ currentDate = SetHoursEndOfDay(Now)
    /\ last = [op |-> "mount", arg |-> "none", date |-> currentDate, span |-> timespan,
               clamped |-> FALSE]
    /\ roundTrip = NoRoundTrip
    /\ memo = MemoAfterData(fullData, currentDate)
    /\ StoreIdle

\* handleBack moving back one day less than a window length.
BackNewDate_OneDayShort(prev, span) == SetDate(prev, GetDate(prev) - (getWindowLength(span) - 1))

\* handleBack's updater: the date moved back by exactly one window length.
BackNewDate(prev, span) == SetDate(prev, GetDate(prev) - getWindowLength(span))

\* newWindowStart of handleBack.
BackNewWindowStart(prev, span) ==
    LET newDate == BackNewDate(prev, span)
    IN  SetHoursStartOfDay(SetDate(newDate, GetDate(newDate) - (getWindowLength(span) - 1)))

\* handleBack clamping also when the new window starts exactly at the earliest data.
BackClamps_AtBound(prev, span, data) == BackNewWindowStart(prev, span) <= EarliestOf(data)

\* Whether handleBack clamps to the earliest data.
BackClamps(prev, span, data) == BackNewWindowStart(prev, span) < EarliestOf(data)

\* handleBack clamping one day too late: the window length added, not the length - 1.
BackEarliestWindowEnd_OneDayLate(span, data) ==
    LET e == EarliestOf(data)
    IN  SetHoursEndOfDay(SetDate(e, GetDate(e) + getWindowLength(span)))

\* earliestWindowEnd of handleBack.
BackEarliestWindowEnd(span, data) ==
    LET e == EarliestOf(data)
    IN  SetHoursEndOfDay(SetDate(e, GetDate(e) + (getWindowLength(span) - 1)))

handleBack ==
    /\ currentDate' = IF BackClamps(currentDate, timespan, fullData)
                      THEN BackEarliestWindowEnd(timespan, fullData)
                      ELSE BackNewDate(currentDate, timespan)
    /\ last' = Called("back", "none", BackClamps(currentDate, timespan, fullData))
    /\ roundTrip' = IF last.op = "forward" THEN <<last.date, last.clamped>> ELSE NoRoundTrip
    /\ memo' = MemoAfterDate(currentDate')
    /\ UNCHANGED <<fullData, timespan>>
    /\ HomeScreenFrame

\* handleForward's updater: the date moved forward by exactly one window length.
ForwardNewDate(prev, span) == SetDate(prev, GetDate(prev) + getWindowLength(span))

\* handleForward testing the old date, not the new one, against today.
ForwardClamps_TestsOldDate(prev, span) == prev > NowEndOfDay

\* Whether handleForward clamps to today.
ForwardClamps(prev, span) == ForwardNewDate(prev, span) > NowEndOfDay

handleForward ==
    /\ currentDate' = IF ForwardClamps(currentDate, timespan)
                      THEN NowEndOfDay
                      ELSE ForwardNewDate(currentDate, timespan)
    /\ last' = Called("forward", "none", ForwardClamps(currentDate, timespan))
    /\ roundTrip' = NoRoundTrip
    /\ memo' = MemoAfterDate(currentDate')
    /\ UNCHANGED <<fullData, timespan>>
    /\ HomeScreenFrame

\* handleTimespanChange resetting the view to today, as regenerating the data does.
handleTimespanChange_ResetsDate(newTimespan) ==
    /\ timespan' = newTimespan
    /\ currentDate' = SetHoursEndOfDay(Now)
    /\ last' = Called("timespan", newTimespan, FALSE)
    /\ roundTrip' = NoRoundTrip
    /\ memo' = MemoAfterDate(currentDate')
    /\ UNCHANGED fullData
    /\ HomeScreenFrame

\* When timespan changes, the end date is kept.
handleTimespanChange(newTimespan) ==
    /\ timespan' = newTimespan
    /\ last' = Called("timespan", newTimespan, FALSE)
    /\ roundTrip' = NoRoundTrip
    /\ UNCHANGED <<fullData, currentDate, memo>>
    /\ HomeScreenFrame

\* Regenerating the data without resetting the view.
handleGenerateSampleData_KeepsDate ==
    /\ fullData' \in generateFullDemoData
    /\ last' = Called("generate", "none", FALSE)
    /\ roundTrip' = NoRoundTrip
    /\ memo' = MemoAfterData(fullData', currentDate)
    /\ UNCHANGED <<timespan, currentDate>>
    /\ HomeScreenFrame

\* Regenerate all data and reset to today's view.
handleGenerateSampleData ==
    /\ fullData' \in generateFullDemoData
    /\ currentDate' = SetHoursEndOfDay(Now)
    /\ last' = Called("generate", "none", FALSE)
    /\ roundTrip' = NoRoundTrip
    /\ memo' = MemoAfterData(fullData', currentDate')
    /\ UNCHANGED timespan
    /\ HomeScreenFrame

Next ==
    \/ handleBack
    \/ handleForward
    \/ \E newTimespan \in TimeSpans : handleTimespanChange(newTimespan)
    \/ handleGenerateSampleData

Spec == Init /\ [][Next]_vars

\* The back control pressed again and again on the week view of a non-empty data set.
InitRetreat == Init /\ fullData # {}

NextRetreat == handleBack

SpecRetreat == InitRetreat /\ [][NextRetreat]_vars /\ WF_vars(handleBack)

(***************************************************************************)
(* The home screen left open overnight                                     *)
(***************************************************************************)

\* Midnight passes while the screen shows: nothing is rendered again.  (The
\* dataBoundaries kept and those computed again differ only when every entry
\* is later than the instant they were computed at, and then both lie on the
\* day of that instant: handleBack compares them with midnights only.)
MidnightPasses ==
    /\ clock < SessionStart + MaxElapsedDays * MinPerDay
    /\ clock' = clock + MinPerDay
    /\ UNCHANGED <<zone, processed, fullData, timespan, currentDate, last, roundTrip, memo>>
    /\ StoreFrame

NextOvernight ==
    \/ handleBack
    \/ handleForward
    \/ \E newTimespan \in TimeSpans : handleTimespanChange(newTimespan)
    \/ handleGenerateSampleData
    \/ MidnightPasses

SpecOvernight == Init /\ [][NextOvernight]_vars

(***************************************************************************)
(* The home screen driven through its controls                             *)
(***************************************************************************)

\* onPress of the back control, disabled={!canGoBack}.
PressBack == canGoBackShown /\ handleBack

\* onPress of the forward control, disabled={!canGoForward}.
PressForward == canGoForwardShown /\ handleForward

NextControls ==
    \/ PressBack
    \/ PressForward
    \/ \E newTimespan \in TimeSpans : handleTimespanChange(newTimespan)
    \/ handleGenerateSampleData

SpecControls == Init /\ [][NextControls]_vars

(***************************************************************************)
(* processEntriesForChart, called on its own while the clock runs          *)
(***************************************************************************)

\* The days, counted back from the day the session starts on, and the
\* <<hour, minute, amountCups, fatigue>> of the log entries passed in.
PassedDayOffsets == {0, 7}

PassedSamples == {<<10, 0, 10, 2>>, <<10, 30, 20, 4>>, <<23, 10, 5, 5>>}

PassedEntry(dayOffset, hour, minute, cups, fatigue) ==
    [timestamp |-> SetHours((Today - dayOffset) * MinPerDay, hour, minute),
     amountCups |-> cups, fatigue |-> fatigue]

\* The entries arguments followed.
PassedEntries ==
    {es \in SUBSET {PassedEntry(off, s[1], s[2], s[3], s[4]) :
                        off \in PassedDayOffsets, s \in PassedSamples} :
        Cardinality(es) <= MaxEntries}

\* A call processEntriesForChart(es, span), and what it returns now.
CallOf(es, span) ==
    [entries |-> es, timespan |-> span, result |-> processEntriesForChart(es, span)]

HomeScreenIdle ==
    /\ fullData = {}
    /\ timespan = "week"
    /\ currentDate = SetHoursEndOfDay(SessionStart)
    /\ last = [op |-> "mount", arg |-> "none", date |-> currentDate, span |-> timespan, clamped |-> FALSE]
    /\ roundTrip = NoRoundTrip
    /\ memo = MemoAfterData(fullData, currentDate)

InitChart ==
    /\ clock = SessionStart
    /\ zone \in Zones
    /\ processed \in {CallOf(es, span) : es \in PassedEntries, span \in TimeSpans}
    /\ HomeScreenIdle
    /\ StoreIdle

\* processEntriesForChart(es, span) is called.
CallProcessEntriesForChart ==
    /\ \E es \in PassedEntries, span \in TimeSpans : processed' = CallOf(es, span)
    /\ UNCHANGED <<clock, zone, fullData, timespan, currentDate, last, roundTrip, memo>>
    /\ StoreFrame

\* A day goes by.
ClockTick ==
    /\ clock < SessionStart + MaxElapsedDays * MinPerDay
    /\ clock' = clock + MinPerDay
    /\ UNCHANGED <<zone, processed, fullData, timespan, currentDate, last, roundTrip, memo>>
    /\ StoreFrame

NextChart ==
    \/ CallProcessEntriesForChart
    \/ ClockTick

SpecChart == InitChart /\ [][NextChart]_vars

(***************************************************************************)
(* The log store (logStore.ts) and seedData (seed.ts).                     *)
(*                                                                         *)
(* An entry is its id, amountCups, fatigue and timestamp; the userId is    *)
(* left out, one user being followed.  Ids are numbered in the order they  *)
(* are handed out.  A function of the store runs without interruption up   *)
(* to its next await of the backend; the backend answers a request in a    *)
(* step of its own, and the function resumes in a later one.  With the     *)
(* mock storage the functions of the store await nothing.                  *)
(***************************************************************************)

MOCK_USER_ID == "dev-user-123456"

\* An anonymous user signed in to the backend.
SignedInUser == "anonymous-uid"

\* const userId = usingMockFirebase ? MOCK_USER_ID : auth.currentUser?.uid
userId == IF usingMockFirebase THEN MOCK_USER_ID ELSE currentUser

\* The ids passed to updateEntry and deleteEntry.
EntryIds == 1..MaxIds

\* The argument of addEntry.
NewEntries == {[amountCups |-> 2, fatigue |-> 3]}

\* The second argument of updateEntry.
Patches == {[fatigue |-> 5]}

\* The entries generateSeedData makes, in the order it makes them: <<day offset
\* i, hours, minutes, amountCups in tenths, fatigue>>.
SeedSamples == <<<<0, 7, 0, 15, 1>>, <<29, 21, 59, 25, 5>>>>

\* The day offsets seedData is followed at.
SeedDayOffsets == {0, 29}

\* date.setDate(date.getDate() - i); date.setHours(hours, minutes, 0, 0)
SeedEntry(s) ==
    [amountCups |-> s[4], fatigue |-> s[5],
     timestamp |-> SetHours(SetDate(Now, GetDate(Now) - s[1]), s[2], s[3])]

\* The outcomes of the loop of generateSeedData followed.
SeedBatches == {<<SeedEntry(SeedSamples[1]), SeedEntry(SeedSamples[2])>>}

\* The timespans passed to fetchEntries.
FetchSpans == {"week"}

\* The outcomes of the loops of seedData followed: the day offset of each
\* addEntry call, in the order of the calls, a day having one entry
\* (numEntries = 1) or none.
SeedPlans ==
    {<<i>> : i \in SeedDayOffsets}
        \cup {p \in SeedDayOffsets \X SeedDayOffsets : p[1] < p[2]}

\* startDate of fetchEntries.
StartDate(span) ==
    CASE span = "day" -> SetHoursStartOfDay(Now)
      [] span = "week" -> SetDate(Now, GetDate(Now) - 7)
      [] span = "twoweeks" -> SetDate(Now, GetDate(Now) - 14)
      [] span = "month" -> SetDate(Now, GetDate(Now) - 30)

\* where('timestamp', '>=', startDate)
NotBefore(stored, startDate) == {e \in stored : e.timestamp >= startDate}

RECURSIVE SortDescending(_)
\* orderBy('timestamp', 'desc'); entries of one timestamp in the order of their ids.
SortDescending(stored) ==
    IF stored = {} THEN <<>>
    ELSE LET first == CHOOSE e \in stored : \A o \in stored :
                          \/ e.timestamp > o.timestamp
                          \/ e.timestamp = o.timestamp /\ e.id <= o.id
         IN  <<first>> \o SortDescending(stored \ {first})

\* The result of the query of fetchEntries.
Fetched(stored, startDate) == SortDescending(NotBefore(stored, startDate))

\* { ...entry, id }
WithId(entry, id) ==
    [id |-> id, amountCups |-> entry.amountCups, fatigue |-> entry.fatigue,
     timestamp |-> entry.timestamp]

\* { ...entry, timestamp: Timestamp.now() }
Stamped(entry) ==
    [amountCups |-> entry.amountCups, fatigue |-> entry.fatigue, timestamp |-> Now]

\* { ...existingEntry, ...entry }
Merged(existingEntry, entry) ==
    [k \in DOMAIN existingEntry |-> IF k \in DOMAIN entry THEN entry[k] ELSE existingEntry[k]]

\* The batch stored under the ids after the ones handed out.
BatchStored(batch) == {WithId(batch[k], idsUsed + k) : k \in DOMAIN batch}

Ids(stored) == {e.id : e \in stored}

\* The ids of state.entries.
EntryIdsOf(state) == {state.entries[k].id : k \in DOMAIN state.entries}

\* entries.map(e => e.id === id ? { ...e, ...entry } : e)
MapMerged(list, id, entry) ==
    [k \in DOMAIN list |-> IF list[k].id = id THEN Merged(list[k], entry) ELSE list[k]]

\* entries.filter(e => e.id !== id)
FilterOut(list, id) == SelectSeq(list, LAMBDA e : e.id # id)

\* set({ isLoading: true, error: null })
Loading == [logStore EXCEPT !.isLoading = TRUE, !.error = "null"]

\* A catch block that leaves isLoading as it is.
CatchState_KeepsLoading(state, message) == [state EXCEPT !.error = message]

\* set({ error: message, isLoading: false }) of a catch block.
CatchState(state, message) == [state EXCEPT !.error = message, !.isLoading = FALSE]

\* Every function returns after the check of the user.
NotAuthenticatedThrows_Never(op) == FALSE

\* Without a user: addEntry, updateEntry and deleteEntry throw, fetchEntries and
\* generateSeedData return.
NotAuthenticatedThrows(op) == op \in {"addEntry", "updateEntry", "deleteEntry"}

\* set({ error: 'User not authenticated' })
NotAuthenticatedState == [logStore EXCEPT !.error = "User not authenticated"]

HasFreeSlot == \E c \in Slots : calls[c].op = "idle"

FreeSlot == CHOOSE c \in Slots : calls[c].op = "idle"

\* A call of op at its await pc.
Awaiting(op, pc) == [IdleCall EXCEPT !.op = op, !.pc = pc]

\* The call of op that is left at an await by this step.
Pending(op, id) ==
    [op |-> op, id |-> id, hadUser |-> TRUE, outcome |-> "pending",
     entriesBefore |-> <<>>, storageBefore |-> {}]

\* The call of op that resolves in this step.
Resolved(op, id) ==
    [op |-> op, id |-> id, hadUser |-> TRUE, outcome |-> "resolved",
     entriesBefore |-> <<>>, storageBefore |-> {}]

\* The call of op whose promise rejects in this step from its catch block.
Rejected(op, id) ==
    [op |-> op, id |-> id, hadUser |-> TRUE, outcome |-> "rejected",
     entriesBefore |-> logStore.entries, storageBefore |-> mockStorage]

\* The call of op that ends in this step at the check of the user.
WithoutUser(op, id, outcome) ==
    [op |-> op, id |-> id, hadUser |-> FALSE, outcome |-> outcome,
     entriesBefore |-> logStore.entries, storageBefore |-> mockStorage]

\* The ids the call of slot c has still to be handed.
IdsAwaited(c) ==
    CASE calls[c].pc = "addDoc" -> 1 + Len(calls[c].plan)
      [] calls[c].pc = "addDocs" -> Len(calls[c].batch)
      [] OTHER -> Len(calls[c].plan)

RECURSIVE IdsAwaitedUpTo(_)
IdsAwaitedUpTo(c) == IF c = 0 THEN 0 ELSE IdsAwaited(c) + IdsAwaitedUpTo(c - 1)

\* Ids are left for n more entries.
IdsLeftFor(n) == idsUsed + IdsAwaitedUpTo(MaxCalls) + n <= MaxIds

\* The requests counted for a call that goes through n requests to the backend
\* when it finds a user: with the mock storage none, without a user one.
RequestsOf(n) == IF usingMockFirebase THEN 0 ELSE IF userId = NoUser THEN 1 ELSE n

\* The calls made so far leave room for a call of n requests.
RequestsLeftFor(n) == requests + RequestsOf(n) <= MaxRequests

\* The call in this step goes through n requests to the backend.
Requesting(n) == requests' = requests + RequestsOf(n)

\* What the store and the backend leave alone.
AppFrame ==
    UNCHANGED <<clock, zone, fullData, timespan, currentDate, last, roundTrip, processed,
                memo, usingMockFirebase>>

\* What a step of the store leaves alone.
StoreStepFrame ==
    /\ AppFrame
    /\ UNCHANGED currentUser

\* The check of the user failing in op: the error is set, the call ends.
NotAuthenticated(op, id) ==
    /\ logStore' = NotAuthenticatedState
    /\ lastStep' = IF NotAuthenticatedThrows(op)
                   THEN WithoutUser(op, id, "rejected")
                   ELSE WithoutUser(op, id, "resolved")
    /\ UNCHANGED <<mockStorage, firestore, calls, idsUsed, added, seededDay>>

\* Fetch entries based on timespan.
fetchEntries(span) ==
    /\ StoreStepFrame
    /\ RequestsLeftFor(1)
    /\ Requesting(1)
    /\ IF userId = NoUser THEN NotAuthenticated("fetchEntries", 0)
       ELSE IF usingMockFirebase THEN
            /\ logStore' = [entries |-> Fetched(mockStorage, StartDate(span)),
                            isLoading |-> FALSE, error |-> "null"]
            /\ lastStep' = Resolved("fetchEntries", 0)
            /\ UNCHANGED <<mockStorage, firestore, calls, idsUsed, added, seededDay>>
       ELSE
            /\ HasFreeSlot
            /\ logStore' = Loading
            /\ calls' = [calls EXCEPT ![FreeSlot] =
                            [Awaiting("fetchEntries", "getDocs") EXCEPT
                                !.startDate = StartDate(span)]]
            /\ lastStep' = Pending("fetchEntries", 0)
            /\ UNCHANGED <<mockStorage, firestore, idsUsed, added, seededDay>>

\* The days seedData made its entries for, with the entry of id made for day.
SeededWith(id, day) == IF day >= 0 THEN seededDay @@ (id :> day) ELSE seededDay

\* addEntry(entry) called by caller in slot c: by the user (day = -1), or by the
\* loop of seedData for the day offset day, rest being the offsets still to come.
CallAddEntry(c, caller, entry, day, rest) ==
    IF userId = NoUser THEN
        /\ logStore' = NotAuthenticatedState
        /\ lastStep' = IF NotAuthenticatedThrows("addEntry")
                       THEN WithoutUser("addEntry", 0, "rejected")
                       ELSE WithoutUser("addEntry", 0, "resolved")
        /\ calls' = [calls EXCEPT ![c] = IdleCall]
        /\ UNCHANGED <<mockStorage, firestore, idsUsed, added, seededDay>>
    ELSE IF usingMockFirebase THEN
        LET entryId == idsUsed + 1
            newEntry == WithId(Stamped(entry), entryId)
        IN  /\ mockStorage' = mockStorage \cup {newEntry}
            /\ logStore' = [entries |-> <<newEntry>> \o logStore.entries,
                            isLoading |-> FALSE, error |-> "null"]
            /\ idsUsed' = entryId
            /\ added' = added \cup {entryId}
            /\ seededDay' = SeededWith(entryId, day)
            /\ calls' = IF caller = "seedData"
                        THEN [calls EXCEPT ![c] =
                                 [Awaiting("seedData", "addEntry") EXCEPT !.plan = rest]]
                        ELSE calls
            /\ lastStep' = Resolved("addEntry", entryId)
            /\ UNCHANGED firestore
    ELSE
        /\ logStore' = Loading
        /\ calls' = [calls EXCEPT ![c] =
                        [Awaiting(caller, "addDoc") EXCEPT
                            !.entry = Stamped(entry), !.plan = rest, !.seedDay = day]]
        /\ lastStep' = Pending("addEntry", 0)
        /\ UNCHANGED <<mockStorage, firestore, idsUsed, added, seededDay>>

\* Add a new entry.
addEntry(entry) ==
    /\ StoreStepFrame
    /\ HasFreeSlot
    /\ IdsLeftFor(1)
    /\ RequestsLeftFor(1)
    /\ Requesting(1)
    /\ CallAddEntry(FreeSlot, "addEntry", entry, -1, <<>>)

\* Update an existing entry.
updateEntry(id, entry) ==
    /\ StoreStepFrame
    /\ RequestsLeftFor(1)
    /\ Requesting(1)
    /\ IF userId = NoUser THEN NotAuthenticated("updateEntry", id)
       ELSE IF usingMockFirebase THEN
            /\ IF id \notin Ids(mockStorage)
               THEN /\ logStore' = CatchState(Loading, "Failed to update entry")
                    /\ lastStep' = Rejected("updateEntry", id)
                    /\ UNCHANGED mockStorage
               ELSE /\ mockStorage' =
                          {IF e.id = id THEN Merged(e, entry) ELSE e : e \in mockStorage}
                    /\ logStore' = [entries |-> MapMerged(logStore.entries, id, entry),
                                    isLoading |-> FALSE, error |-> "null"]
                    /\ lastStep' = Resolved("updateEntry", id)
            /\ UNCHANGED <<firestore, calls, idsUsed, added, seededDay>>
       ELSE
            /\ HasFreeSlot
            /\ logStore' = Loading
            /\ calls' = [calls EXCEPT ![FreeSlot] =
                            [Awaiting("updateEntry", "updateDoc") EXCEPT
                                !.id = id, !.entry = entry]]
            /\ lastStep' = Pending("updateEntry", id)
            /\ UNCHANGED <<mockStorage, firestore, idsUsed, added, seededDay>>

\* Delete an entry.
deleteEntry(id) ==
    /\ StoreStepFrame
    /\ RequestsLeftFor(1)
    /\ Requesting(1)
    /\ IF userId = NoUser THEN NotAuthenticated("deleteEntry", id)
       ELSE IF usingMockFirebase THEN
            /\ IF id \notin Ids(mockStorage)
               THEN /\ logStore' = CatchState(Loading, "Failed to delete entry")
                    /\ lastStep' = Rejected("deleteEntry", id)
                    /\ UNCHANGED mockStorage
               ELSE /\ mockStorage' = {e \in mockStorage : e.id # id}
                    /\ logStore' = [entries |-> FilterOut(logStore.entries, id),
                                    isLoading |-> FALSE, error |-> "null"]
                    /\ lastStep' = Resolved("deleteEntry", id)
            /\ added' = added \ {id}
            /\ UNCHANGED <<firestore, calls, idsUsed, seededDay>>
       ELSE
            /\ HasFreeSlot
            /\ logStore' = Loading
            /\ calls' = [calls EXCEPT ![FreeSlot] =
                            [Awaiting("deleteEntry", "deleteDoc") EXCEPT !.id = id]]
            /\ lastStep' = Pending("deleteEntry", id)
            /\ added' = added \ {id}
            /\ UNCHANGED <<mockStorage, firestore, idsUsed, seededDay>>

\* Generate seed data for 30 days, batch being the entries its loop makes.  With
\* the mock storage the fetchEntries('month') it ends with runs within the call.
generateSeedData(batch) ==
    /\ StoreStepFrame
    /\ RequestsLeftFor(2)
    /\ Requesting(2)
    /\ IF userId = NoUser THEN NotAuthenticated("generateSeedData", 0)
       ELSE IF usingMockFirebase THEN
            /\ IdsLeftFor(Len(batch))
            /\ mockStorage' = BatchStored(batch)
            /\ idsUsed' = idsUsed + Len(batch)
            /\ logStore' = [entries |-> Fetched(BatchStored(batch), StartDate("month")),
                            isLoading |-> FALSE, error |-> "null"]
            /\ added' = {}
            /\ lastStep' = Resolved("generateSeedData", 0)
            /\ UNCHANGED <<firestore, calls, seededDay>>
       ELSE
            /\ HasFreeSlot
            /\ IdsLeftFor(Len(batch))
            /\ logStore' = Loading
            /\ calls' = [calls EXCEPT ![FreeSlot] =
                            [Awaiting("generateSeedData", "addDocs") EXCEPT !.batch = batch]]
            /\ lastStep' = Pending("generateSeedData", 0)
            /\ UNCHANGED <<mockStorage, firestore, idsUsed, added, seededDay>>

\* seedData, plan being the day offsets i of its addEntry calls: up to the first
\* await addEntry(...).
seedData(plan) ==
    /\ StoreStepFrame
    /\ HasFreeSlot
    /\ IdsLeftFor(Len(plan))
    /\ RequestsLeftFor(Len(plan))
    /\ Requesting(Len(plan))
    /\ \E entry \in NewEntries :
           CallAddEntry(FreeSlot, "seedData", entry, Head(plan), Tail(plan))

(***************************************************************************)
(* The backend answering                                                   *)
(***************************************************************************)

\* The await a request is left at when the backend has answered it.
Done(pc) ==
    CASE pc = "getDocs" -> "getDocsDone"
      [] pc = "addDoc" -> "addDocDone"
      [] pc = "updateDoc" -> "updateDocDone"
      [] pc = "deleteDoc" -> "deleteDocDone"
      [] pc = "addDocs" -> "addDocsDone"

\* The await a request is left at when the backend has refused it.
Failed(pc) ==
    CASE pc = "getDocs" -> "getDocsFailed"
      [] pc = "addDoc" -> "addDocFailed"
      [] pc = "updateDoc" -> "updateDocFailed"
      [] pc = "deleteDoc" -> "deleteDocFailed"
      [] pc = "addDocs" -> "addDocsFailed"

Requests == {"getDocs", "addDoc", "updateDoc", "deleteDoc", "addDocs"}

\* What an answer of the backend leaves alone.
BackendFrame ==
    /\ StoreStepFrame
    /\ UNCHANGED <<mockStorage, logStore, requests, lastStep, added>>

\* await getDocs(q)
getDocs(c) ==
    /\ calls[c].pc = "getDocs"
    /\ calls' = [calls EXCEPT ![c].pc = Done(@),
                              ![c].snapshot = Fetched(firestore, calls[c].startDate)]
    /\ UNCHANGED <<firestore, idsUsed, seededDay>>
    /\ BackendFrame

\* await addDoc(collection, newEntry)
addDoc(c) ==
    /\ calls[c].pc = "addDoc"
    /\ firestore' = firestore \cup {WithId(calls[c].entry, idsUsed + 1)}
    /\ idsUsed' = idsUsed + 1
    /\ seededDay' = SeededWith(idsUsed + 1, calls[c].seedDay)
    /\ calls' = [calls EXCEPT ![c].pc = Done(@), ![c].id = idsUsed + 1]
    /\ BackendFrame

\* await updateDoc(docRef, entry): the document has to exist.
updateDoc(c) ==
    /\ calls[c].pc = "updateDoc"
    /\ calls[c].id \in Ids(firestore)
    /\ firestore' = {IF e.id = calls[c].id THEN Merged(e, calls[c].entry) ELSE e :
                        e \in firestore}
    /\ calls' = [calls EXCEPT ![c].pc = Done(@)]
    /\ UNCHANGED <<idsUsed, seededDay>>
    /\ BackendFrame

\* await deleteDoc(docRef)
deleteDoc(c) ==
    /\ calls[c].pc = "deleteDoc"
    /\ firestore' = {e \in firestore : e.id # calls[c].id}
    /\ calls' = [calls EXCEPT ![c].pc = Done(@)]
    /\ UNCHANGED <<idsUsed, seededDay>>
    /\ BackendFrame

\* await Promise.all(batch)
addDocs(c) ==
    /\ calls[c].pc = "addDocs"
    /\ firestore' = firestore \cup BatchStored(calls[c].batch)
    /\ idsUsed' = idsUsed + Len(calls[c].batch)
    /\ calls' = [calls EXCEPT ![c].pc = Done(@)]
    /\ UNCHANGED seededDay
    /\ BackendFrame

\* The awaited promise rejects.
RequestFails(c) ==
    /\ calls[c].pc \in Requests
    /\ calls' = [calls EXCEPT ![c].pc = Failed(@)]
    /\ UNCHANGED <<firestore, idsUsed, seededDay>>
    /\ BackendFrame

\* The backend ends the user's session: onAuthStateChanged is called with null,
\* and auth.currentUser is null from then on.
UserSignedOut ==
    /\ ~usingMockFirebase
    /\ currentUser # NoUser
    /\ currentUser' = NoUser
    /\ AppFrame
    /\ UNCHANGED <<mockStorage, firestore, logStore, calls, idsUsed, requests, lastStep,
                   added, seededDay>>

(***************************************************************************)
(* The functions of the store resuming                                     *)
(***************************************************************************)

\* What a resuming function leaves alone.
ResumeFrame ==
    /\ StoreStepFrame
    /\ UNCHANGED <<mockStorage, firestore, idsUsed, requests, seededDay>>

\* fetchEntries after await getDocs(q).
fetchEntriesResume(c) ==
    /\ calls[c].op = "fetchEntries"
    /\ calls[c].pc \in {"getDocsDone", "getDocsFailed"}
    /\ logStore' = IF calls[c].pc = "getDocsDone"
                   THEN [logStore EXCEPT !.entries = calls[c].snapshot, !.isLoading = FALSE]
                   ELSE CatchState(logStore, "Failed to fetch entries")
    /\ calls' = [calls EXCEPT ![c] = IdleCall]
    /\ lastStep' = Resolved("fetchEntries", 0)
    /\ UNCHANGED added
    /\ ResumeFrame

\* addEntry after await addDoc(...); when seedData called it and it resolves,
\* seedData is left at its await.
addEntryResume(c) ==
    /\ calls[c].op \in {"addEntry", "seedData"}
    /\ calls[c].pc \in {"addDocDone", "addDocFailed"}
    /\ IF calls[c].pc = "addDocDone"
       THEN /\ logStore' = [logStore EXCEPT
                               !.entries = <<WithId(calls[c].entry, calls[c].id)>> \o @,
                               !.isLoading = FALSE]
            /\ added' = added \cup {calls[c].id}
            /\ calls' = IF calls[c].op = "seedData"
                        THEN [calls EXCEPT ![c] =
                                 [Awaiting("seedData", "addEntry") EXCEPT
                                     !.plan = calls[c].plan]]
                        ELSE [calls EXCEPT ![c] = IdleCall]
            /\ lastStep' = Resolved("addEntry", calls[c].id)
       ELSE /\ logStore' = CatchState(logStore, "Failed to add entry")
            /\ calls' = [calls EXCEPT ![c] = IdleCall]
            /\ lastStep' = Rejected("addEntry", 0)
            /\ UNCHANGED added
    /\ ResumeFrame

\* updateEntry after await updateDoc(...).
updateEntryResume(c) ==
    /\ calls[c].op = "updateEntry"
    /\ calls[c].pc \in {"updateDocDone", "updateDocFailed"}
    /\ IF calls[c].pc = "updateDocDone"
       THEN /\ logStore' = [logStore EXCEPT
                               !.entries = MapMerged(@, calls[c].id, calls[c].entry),
                               !.isLoading = FALSE]
            /\ lastStep' = Resolved("updateEntry", calls[c].id)
       ELSE /\ logStore' = CatchState(logStore, "Failed to update entry")
            /\ lastStep' = Rejected("updateEntry", calls[c].id)
    /\ calls' = [calls EXCEPT ![c] = IdleCall]
    /\ UNCHANGED added
    /\ ResumeFrame

\* deleteEntry after await deleteDoc(...).
deleteEntryResume(c) ==
    /\ calls[c].op = "deleteEntry"
    /\ calls[c].pc \in {"deleteDocDone", "deleteDocFailed"}
    /\ IF calls[c].pc = "deleteDocDone"
       THEN /\ logStore' = [logStore EXCEPT
                               !.entries = FilterOut(@, calls[c].id),
                               !.isLoading = FALSE]
            /\ lastStep' = Resolved("deleteEntry", calls[c].id)
       ELSE /\ logStore' = CatchState(logStore, "Failed to delete entry")
            /\ lastStep' = Rejected("deleteEntry", calls[c].id)
    /\ calls' = [calls EXCEPT ![c] = IdleCall]
    /\ UNCHANGED added
    /\ ResumeFrame

\* generateSeedData after await Promise.all(batch), where it calls
\* fetchEntries('month'), and after that call has resumed and resolved; when
\* that call finds no user it returns at once, and generateSeedData after it.
generateSeedDataResume(c) ==
    /\ calls[c].op = "generateSeedData"
    /\ calls[c].pc \in {"addDocsDone", "addDocsFailed", "getDocsDone", "getDocsFailed"}
    /\ CASE calls[c].pc = "addDocsDone" /\ userId # NoUser ->
                /\ logStore' = Loading
                /\ calls' = [calls EXCEPT ![c] =
                                [Awaiting("generateSeedData", "getDocs") EXCEPT
                                    !.startDate = StartDate("month")]]
                /\ lastStep' = Pending("fetchEntries", 0)
         [] calls[c].pc = "addDocsDone" /\ userId = NoUser ->
                /\ logStore' = [NotAuthenticatedState EXCEPT !.isLoading = FALSE]
                /\ calls' = [calls EXCEPT ![c] = IdleCall]
                /\ lastStep' = WithoutUser("fetchEntries", 0, "resolved")
         [] calls[c].pc = "addDocsFailed" ->
                /\ logStore' = CatchState(logStore, "Failed to generate seed data")
                /\ calls' = [calls EXCEPT ![c] = IdleCall]
                /\ lastStep' = Resolved("generateSeedData", 0)
         [] calls[c].pc = "getDocsDone" ->
                /\ logStore' = [logStore EXCEPT !.entries = calls[c].snapshot,
                                                !.isLoading = FALSE]
                /\ calls' = [calls EXCEPT ![c] = IdleCall]
                /\ lastStep' = Resolved("generateSeedData", 0)
         [] calls[c].pc = "getDocsFailed" ->
                /\ logStore' = CatchState(logStore, "Failed to fetch entries")
                /\ calls' = [calls EXCEPT ![c] = IdleCall]
                /\ lastStep' = Resolved("generateSeedData", 0)
    /\ UNCHANGED added
    /\ ResumeFrame

\* seedData after await addEntry(...): the next addEntry of its loops, or the end.
seedDataResume(c) ==
    /\ calls[c].op = "seedData"
    /\ calls[c].pc = "addEntry"
    /\ StoreStepFrame
    /\ UNCHANGED requests
    /\ IF calls[c].plan = <<>>
       THEN /\ calls' = [calls EXCEPT ![c] = IdleCall]
            /\ lastStep' = Resolved("seedData", 0)
            /\ UNCHANGED <<mockStorage, firestore, logStore, idsUsed, added, seededDay>>
       ELSE \E entry \in NewEntries :
                CallAddEntry(c, "seedData", entry, Head(calls[c].plan), Tail(calls[c].plan))

\* The store in use: the development build, or the backend with or without a
\* user signed in.
InitStore ==
    /\ clock = SessionStart
    /\ zone = "fixed"
    /\ HomeScreenIdle
    /\ processed = NoCall
    /\ usingMockFirebase \in BOOLEAN
    /\ currentUser \in IF usingMockFirebase THEN {NoUser} ELSE {NoUser, SignedInUser}
    /\ StoreCreated

NextStore ==
    \/ \E span \in FetchSpans : fetchEntries(span)
    \/ \E entry \in NewEntries : addEntry(entry)
    \/ \E id \in EntryIds, entry \in Patches : updateEntry(id, entry)
    \/ \E id \in EntryIds : deleteEntry(id)
    \/ \E batch \in SeedBatches : generateSeedData(batch)
    \/ \E plan \in SeedPlans : seedData(plan)
    \/ \E c \in Slots : getDocs(c)
    \/ \E c \in Slots : addDoc(c)
    \/ \E c \in Slots : updateDoc(c)
    \/ \E c \in Slots : deleteDoc(c)
    \/ \E c \in Slots : addDocs(c)
    \/ \E c \in Slots : RequestFails(c)
    \/ UserSignedOut
    \/ \E c \in Slots : fetchEntriesResume(c)
    \/ \E c \in Slots : addEntryResume(c)
    \/ \E c \in Slots : updateEntryResume(c)
    \/ \E c \in Slots : deleteEntryResume(c)
    \/ \E c \in Slots : generateSeedDataResume(c)
    \/ \E c \in Slots : seedDataResume(c)

SpecStore == InitStore /\ [][NextStore]_vars

(***************************************************************************)
(* The vocabulary of the specification                                     *)
(***************************************************************************)

\* windowLength(span) of the specification's data model.
windowLength(span) ==
    CASE span = "day" -> 1
      [] span = "week" -> 7
      [] span = "twoweeks" -> 14
      [] span = "month" -> 30

\* The instant n whole days before t.
DaysBefore(t, n) == t - n * MinPerDay

\* The instant n whole days after t.
DaysAfter(t, n) == t + n * MinPerDay

\* earliestBound: the minimum timestamp across a non-empty snapshot.
EarliestBound(data) == Min({e.timestamp : e \in data})

\* The start of the window computeWindow gives an anchor: 00:00 of the day
\* windowLength(span) - 1 days before the anchor's day.
ComputedStart(anchor, span) ==
    DaysBefore(anchor - TimeOfDay(anchor), windowLength(span) - 1)

(***************************************************************************)
(* Navigator: retreat                                                      *)
(***************************************************************************)

\* C1 (as stated): after retreat() on a non-empty data set, when the candidate
\* window (anchor minus windowLength days) starts before earliestBound the new
\* window starts at earliestBound exactly, whatever its time of day; otherwise
\* the anchor is the candidate anchor.
C1_RetreatStartsAtEarliestBound ==
    (last.op = "back" /\ fullData # {}) =>
        LET candidateAnchor == DaysBefore(last.date, windowLength(last.span))
        IN  IF ComputedStart(candidateAnchor, last.span) < EarliestBound(fullData)
            THEN ComputedStart(currentDate, timespan) = EarliestBound(fullData)
            ELSE currentDate = candidateAnchor

\* C1 (amended): after retreat() on a non-empty data set, when the candidate
\* window starts before earliestBound the new window starts at 00:00 of
\* earliestBound's calendar day; otherwise the anchor is the candidate anchor.
C1_RetreatStartsOnEarliestDay ==
    (last.op = "back" /\ fullData # {}) =>
        LET candidateAnchor == DaysBefore(last.date, windowLength(last.span))
            bound == EarliestBound(fullData)
        IN  IF ComputedStart(candidateAnchor, last.span) < bound
            THEN ComputedStart(currentDate, timespan) = bound - TimeOfDay(bound)
            ELSE currentDate = candidateAnchor

\* C1 witness: a retreat clamped at an earliest observation made at 23:10.
C1_ClampedAtMidDayBound ==
    /\ last.op = "back"
    /\ last.clamped
    /\ fullData # {}
    /\ TimeOfDay(EarliestBound(fullData)) # 0
    /\ currentDate # last.date

\* C2: retreat() on an empty data set leaves the anchor unchanged.
C2_RetreatOnEmptyIsNoOp ==
    (last.op = "back" /\ fullData = {}) => currentDate = last.date

\* When the window starts on the day of the earliest observation.
AtEarliest == windowStart = EarliestBound(fullData) - TimeOfDay(EarliestBound(fullData))

\* C3: on the week view of a non-empty data set, retreat() called again and
\* again reaches a window that starts on the earliest observation's date, and
\* from then on canRetreat() is false and a further retreat() leaves the
\* anchor where it is.
C3_RetreatReachesEarliest ==
    /\ <>AtEarliest
    /\ [](AtEarliest => [](AtEarliest /\ ~canGoBack))
    /\ [][AtEarliest => currentDate' = currentDate]_vars

\* C3 witness: a retreat() made at the earliest window, which changed nothing.
C3_RetreatAtEarliestWindow ==
    /\ last.op = "back"
    /\ AtEarliest
    /\ ~canGoBack
    /\ ComputedStart(last.date, last.span) = windowStart
    /\ currentDate = last.date


(***************************************************************************)
(* WindowCalculator                                                        *)
(***************************************************************************)

\* 00:00:00.000 of the anchor's calendar day.
DayStart(t) == t - TimeOfDay(t)

\* 23:59:59.999 of the anchor's calendar day.
DayEnd(t) == DayStart(t) + (MinPerDay - 1)

\* Anchors at the first instant, at 10:15 and at the last instant of the
\* navigator's current day.
AnchorsOfCurrentDay == {DayStart(currentDate), DayStart(currentDate) + NowTod, DayEnd(currentDate)}

\* C5: for every anchor and span, the window ends at 23:59:59.999 of the
\* anchor's day and starts at 00:00:00.000 of the day windowLength(span) - 1
\* days before it, and start <= end.
C5_WindowOfAnchor ==
    \A anchor \in AnchorsOfCurrentDay : \A span \in TimeSpans :
        /\ WindowEndOf(anchor) = DayEnd(anchor)
        /\ WindowStartOf(anchor, span) = DaysBefore(DayStart(anchor), windowLength(span) - 1)
        /\ WindowStartOf(anchor, span) <= WindowEndOf(anchor)

\* C5 witness: a month window reached by going back, which starts in an
\* earlier month than it ends.
C5_MonthWindowAcrossMonths ==
    /\ last.op = "back"
    /\ timespan = "month"
    /\ currentDate < DayEnd(Now)
    /\ GetMonth(windowStart) # GetMonth(windowEnd)

(***************************************************************************)
(* Navigator: advance, canRetreat, canAdvance, changeSpan                  *)
(***************************************************************************)

\* C6: advance() makes the anchor the candidate anchor (anchor plus
\* windowLength days), or now (the end of today) when the candidate is later
\* than now; so from an anchor not later than now it never passes now.
C6_AdvanceClampsAtNow ==
    last.op = "forward" =>
        LET candidateAnchor == DaysAfter(last.date, windowLength(last.span))
        IN  /\ currentDate = IF candidateAnchor > DayEnd(Now) THEN DayEnd(Now) ELSE candidateAnchor
            /\ last.date <= DayEnd(Now) => currentDate <= DayEnd(Now)

\* C6 witness: an advance() from a past anchor that was clamped to now.
C6_AdvanceClampedFromPast ==
    /\ last.op = "forward"
    /\ last.clamped
    /\ last.date < DayEnd(Now)
    /\ currentDate = DayEnd(Now)

\* C7: canRetreat() is true exactly when the data set is non-empty and the
\* current window's start moved back by windowLength days is not before
\* earliestBound.
C7_CanRetreatIffFullStepFits ==
    canGoBack <=>
        /\ fullData # {}
        /\ DaysBefore(ComputedStart(currentDate, timespan), windowLength(timespan))
              >= EarliestBound(fullData)

\* C7 witness: canRetreat() true where a full step back lands exactly on
\* earliestBound.
C7_FullStepLandsOnBound ==
    /\ fullData # {}
    /\ canGoBack
    /\ DaysBefore(windowStart, windowLength(timespan)) = EarliestBound(fullData)

\* C8: canAdvance() is false exactly when the anchor's end of day is now's
\* end of day.
C8_CanAdvanceFalseIffAtToday ==
    (~canGoForward) <=> (DayEnd(currentDate) = DayEnd(Now))

\* The anchor retreat() clamps to: the end of the day windowLength - 1 days
\* after earliestBound's day.
RetreatClampValue(span) == DayEnd(DaysAfter(EarliestBound(fullData), windowLength(span) - 1))

\* C9 (as stated): on a non-empty data set, advance() then retreat() gives
\* back the original anchor when neither step clamped, and otherwise a value
\* a step clamped to (now, or the retreat's clamp value).
C9_RoundTripOrClampedValue ==
    (roundTrip # NoRoundTrip /\ fullData # {}) =>
        IF ~roundTrip[2] /\ ~last.clamped
        THEN currentDate = roundTrip[1]
        ELSE \/ roundTrip[2] /\ currentDate = DayEnd(Now)
             \/ last.clamped /\ currentDate = RetreatClampValue(timespan)

\* C9 (amended): on a non-empty data set, advance() then retreat() gives back
\* the original anchor when neither step clamped; the retreat's clamp value
\* when the retreat clamped; and now minus windowLength days when only the
\* advance clamped.
C9_RoundTrip ==
    (roundTrip # NoRoundTrip /\ fullData # {}) =>
        IF last.clamped THEN currentDate = RetreatClampValue(timespan)
        ELSE IF roundTrip[2] THEN currentDate = DaysBefore(DayEnd(Now), windowLength(timespan))
        ELSE currentDate = roundTrip[1]

\* C9 witness: an advance() clamped to now followed by a retreat() that was
\* not clamped.
C9_ClampedAdvanceThenRetreat ==
    /\ roundTrip # NoRoundTrip
    /\ fullData # {}
    /\ roundTrip[2]
    /\ ~last.clamped
    /\ roundTrip[1] < DayEnd(Now)

\* C10: changeSpan(newSpan) makes newSpan the span and leaves the anchor, and
\* so the window's end, as they were.
C10_ChangeSpanKeepsAnchor ==
    last.op = "timespan" =>
        /\ timespan = last.arg
        /\ currentDate = last.date
        /\ windowEnd = DayEnd(last.date)

\* C10 witness: a change to another span made away from today.
C10_SpanChangedAwayFromToday ==
    /\ last.op = "timespan"
    /\ last.arg # last.span
    /\ currentDate < DayEnd(Now)

(***************************************************************************)
(* Aggregator on the home screen                                           *)
(***************************************************************************)

\* The label "<month>/<day>" of a calendar day of the model's year.
MonthDayLabel(t) ==
    LET doy == (t \div MinPerDay) % DaysPerYear
        before(m) == IF m = 1 THEN 0 ELSE
                     LET RECURSIVE upTo(_)
                         upTo(k) == IF k = 0 THEN 0 ELSE MonthLengths[k] + upTo(k - 1)
                     IN  upTo(m - 1)
        month == CHOOSE m \in 1..12 : before(m) <= doy /\ doy < before(m) + MonthLengths[m]
    IN  ToString(month) \o "/" \o ToString(doy - before(month) + 1)

\* The in-window observations made on the i-th calendar day of the window.
OnWindowDay(i) ==
    {e \in entries : e.timestamp \div MinPerDay = (windowStart \div MinPerDay) + i}

\* C4: on a calendar-day span, the chart of a window holding observations has
\* one bucket per calendar day of the window, window.start first: bucket i is
\* labelled "<month>/<day>" of window.start + i days and sums the observations
\* made on that day.
C4_BucketsAreWindowDays ==
    (timespan # "day" /\ entries # {}) =>
        /\ Len(chartData.labels) = windowLength(timespan)
        /\ \A i \in 0..(windowLength(timespan) - 1) :
              /\ chartData.labels[i + 1] = MonthDayLabel(DaysAfter(windowStart, i))
              /\ chartData.waterData[i + 1] = WaterTotal(OnWindowDay(i))

(***************************************************************************)
(* Aggregator: processEntriesForChart                                      *)
(***************************************************************************)

\* The number of buckets of a span: 24 hours, or windowLength(span) days.
BucketCount(span) == IF span = "day" THEN 24 ELSE windowLength(span)

\* C11: for every collection passed, the empty one included,
\* processEntriesForChart returns labels, waterData and fatigueData of one
\* length: 24 on the day span and windowLength(span) on the other spans.
C11_SeriesHaveBucketCountLength ==
    /\ Len(processed.result.labels) = BucketCount(processed.timespan)
    /\ Len(processed.result.waterData) = BucketCount(processed.timespan)
    /\ Len(processed.result.fatigueData) = BucketCount(processed.timespan)

\* Two weeks asked for, of entries a week and more apart.
C11_TwoWeeksOfSpreadEntries ==
    /\ processed.timespan = "twoweeks"
    /\ \E a, b \in processed.entries : DayIndex(a.timestamp) - DayIndex(b.timestamp) >= 7
    /\ Len(processed.result.labels) = 14

\* C12 as stated: in every state reachable by navigation, the arrays the home
\* screen hands to the chart have the bucket count of the active span as their
\* length, also when the active window holds no observation.
C12_HomeChartHasBucketCountLength ==
    LET handed == chartData
    IN  /\ Len(handed.labels) = BucketCount(timespan)
        /\ Len(handed.waterData) = BucketCount(timespan)
        /\ Len(handed.fatigueData) = BucketCount(timespan)

\* C12, amended: in every state reachable by navigation, the arrays the home
\* screen hands to the chart have the bucket count of the active span as their
\* length whenever the active window holds an observation; when it holds
\* none, the chart is handed the placeholder series of 7 buckets "Mon".."Sun".
C12_HomeChartLengthOrPlaceholder ==
    LET handed == chartData
    IN  IF entries # {}
        THEN /\ Len(handed.labels) = BucketCount(timespan)
             /\ Len(handed.waterData) = BucketCount(timespan)
             /\ Len(handed.fatigueData) = BucketCount(timespan)
        ELSE /\ handed.labels = <<"Mon", "Tue", "Wed", "Thu", "Fri", "Sat", "Sun">>
             /\ Len(handed.waterData) = 7
             /\ Len(handed.fatigueData) = 7

\* A month window reached by going back, holding an observation.
C12_MonthWindowAfterRetreat ==
    /\ last.op = "back"
    /\ timespan = "month"
    /\ entries # {}
    /\ Len(chartData.labels) = 30

\* The number 0 of a fatigue series.
Zero == <<0, 1>>

\* C13: called with an empty collection, processEntriesForChart returns for
\* every span a series of the span's full length in which every water value
\* is 0 and every fatigue value is 0.
C13_EmptyCollectionGivesZeroSeries ==
    processed.entries = {} =>
        /\ Len(processed.result.labels) = BucketCount(processed.timespan)
        /\ processed.result.waterData = [i \in 1..BucketCount(processed.timespan) |-> 0]
        /\ processed.result.fatigueData = [i \in 1..BucketCount(processed.timespan) |-> Zero]

\* A month asked for of no entries.
C13_MonthOfNothing ==
    /\ processed.entries = {}
    /\ processed.timespan = "month"
    /\ Len(processed.result.waterData) = 30

RECURSIVE PrimarySum(_)
\* primarySum: the amountCups of a set of observations added up.
PrimarySum(S) ==
    IF S = {} THEN 0
    ELSE LET o == CHOOSE x \in S : \A y \in S : x.timestamp <= y.timestamp
         IN  o.amountCups + PrimarySum(S \ {o})

RECURSIVE SecondarySum(_)
\* The fatigue of a set of observations added up.
SecondarySum(S) ==
    IF S = {} THEN 0
    ELSE LET o == CHOOSE x \in S : \A y \in S : x.timestamp <= y.timestamp
         IN  o.fatigue + SecondarySum(S \ {o})

\* The fraction m is the mean fatigue of the observations S, or 0 for none.
IsSecondaryAverage(m, S) ==
    IF S = {} THEN m = Zero
    ELSE m[1] * Cardinality(S) = m[2] * SecondarySum(S)

\* The observations of the last call mapped to bucket i: those of hour i of
\* the day, or those made i whole days after the start of the series.
MappedTo(i) ==
    IF processed.timespan = "day"
    THEN {o \in processed.entries : (o.timestamp % MinPerDay) \div MinPerHour = i}
    ELSE {o \in processed.entries :
            BucketIndex(o, GroupWindowStart(processed.entries, windowLength(processed.timespan))) = i}

\* The example: 1 cup at fatigue 2 at 10:00 of Day0 and 2 cups at fatigue 4
\* at 10:30 of Day0, Day0 being the day the session starts on.
ExampleObservations ==
    {[timestamp |-> Today * MinPerDay + 10 * MinPerHour, amountCups |-> 10, fatigue |-> 2],
     [timestamp |-> Today * MinPerDay + 10 * MinPerHour + 30, amountCups |-> 20, fatigue |-> 4]}

\* C14: in both bucketing modes the water value of every bucket is the sum of
\* amountCups of exactly the observations mapped to the bucket and its fatigue
\* value is the mean fatigue of those observations, or 0 for a bucket without
\* observation; the two observations of the example, aggregated for a week,
\* give 3 cups and fatigue 3 in the bucket of Day0 and 0 and 0 in the six others.
C14_BucketsSumAndAverage ==
    /\ \A i \in 0..(BucketCount(processed.timespan) - 1) :
          /\ processed.result.waterData[i + 1] = PrimarySum(MappedTo(i))
          /\ IsSecondaryAverage(processed.result.fatigueData[i + 1], MappedTo(i))
    /\ (processed.entries = ExampleObservations /\ processed.timespan = "week") =>
          /\ processed.result.waterData = <<0, 0, 0, 0, 0, 0, 30>>
          /\ processed.result.fatigueData = <<Zero, Zero, Zero, Zero, Zero, Zero, <<3, 1>>>>

\* The example's call.
C14_ExampleAggregated ==
    /\ processed.entries = ExampleObservations
    /\ processed.timespan = "week"
    /\ processed.result.labels[7] = MonthDayLabel(Today * MinPerDay)

(***************************************************************************)
(* Boundary tracker: dataBoundaries                                        *)
(***************************************************************************)

\* C15: for every non-empty snapshot the earliest bound is exactly the minimum
\* timestamp of the snapshot, whatever the relation of the timestamps to the
\* current time (for the empty snapshot there is no bound).
C15_EarliestIsMinimumTimestamp ==
    fullData # {} => earliest = EarliestBound(fullData)

(***************************************************************************)
(* Aggregator: determinism                                                 *)
(***************************************************************************)

\* C16: a call of processEntriesForChart with the observations and the span
\* of the call before it returns the labels and series that call returned,
\* whatever the time of each call.
C16_SameInputsSameResult ==
    [][(/\ processed'.entries = processed.entries
        /\ processed'.timespan = processed.timespan)
       => processed'.result = processed.result]_vars

(***************************************************************************)
(* Aggregator on the home screen: dropped observations                     *)
(***************************************************************************)

RECURSIVE SeriesSum(_)
\* The values of a series added up.
SeriesSum(series) ==
    IF series = <<>> THEN 0 ELSE series[1] + SeriesSum(Tail(series))

\* C17: on a calendar-day span, no observation filtered to the active window
\* is dropped by the aggregation: the bucket index of each is within
\* 0..windowLength-1, and the water series adds up to the total amountCups of
\* the filtered observations.
C17_NoFilteredObservationDropped ==
    (timespan # "day" /\ entries # {}) =>
        LET start == GroupWindowStart(entries, windowLength(timespan))
        IN  /\ \A o \in entries : BucketIndex(o, start) \in 0..(windowLength(timespan) - 1)
            /\ SeriesSum(chartData.waterData) = PrimarySum(entries)

(***************************************************************************)
(* Aggregator on the home screen: the day span                             *)
(***************************************************************************)

\* C18: when the span is Day, every observation the home screen passes to the
\* hour-of-day aggregation was made on the anchor's calendar day, in every
\* state reachable by navigation; so two observations counted in one hour
\* bucket are of one calendar day.
C18_DaySpanPassesOneDay ==
    timespan = "day" =>
        /\ \A o \in entries : o.timestamp \div MinPerDay = currentDate \div MinPerDay
        /\ \A a, b \in entries :
              GetHours(a.timestamp) = GetHours(b.timestamp)
                  => a.timestamp \div MinPerDay = b.timestamp \div MinPerDay

\* A day before today reached by going back, with an observation of that day
\* passed on and an observation of an earlier day held back.
C18_PastDayWithObservations ==
    /\ timespan = "day"
    /\ last.op = "back"
    /\ currentDate < DayEnd(Now)
    /\ entries # {}
    /\ \E o \in fullData : o.timestamp < windowStart

(***************************************************************************)
(* Aggregator: hour-of-day labels                                          *)
(***************************************************************************)

\* The labels of the 24 hours of the day.
TwelveHourLabels ==
    <<"12AM", "1AM", "2AM", "3AM", "4AM", "5AM", "6AM", "7AM", "8AM", "9AM", "10AM", "11AM",
      "12PM", "1PM", "2PM", "3PM", "4PM", "5PM", "6PM", "7PM", "8PM", "9PM", "10PM", "11PM">>

\* C19: on the day span the label of bucket i (0..23) is the hour of the
\* 12-hour clock followed by AM (i < 12) or PM (i >= 12): "12AM", "1AM" ..
\* "11AM", "12PM", "1PM" .. "11PM"; the 24 labels are pairwise distinct.
C19_HourLabelsAreTwelveHourClock ==
    processed.timespan = "day" =>
        /\ processed.result.labels = TwelveHourLabels
        /\ \A i, j \in 1..24 :
              i # j => processed.result.labels[i] # processed.result.labels[j]

\* Observations of the morning and of the late evening aggregated by hour.
C19_DayOfObservations ==
    /\ processed.timespan = "day"
    /\ \E o \in processed.entries : GetHours(o.timestamp) < 12
    /\ \E o \in processed.entries : GetHours(o.timestamp) >= 12
    /\ Len(processed.result.labels) = 24

(***************************************************************************)
(* Navigator: initialize                                                   *)
(***************************************************************************)

\* C20: at the start of the session the anchor is 23:59:59.999 of today, the
\* span is the week, and the forward control cannot be used.
C20_SessionStartsAtTodayOnWeek ==
    last.op = "mount" =>
        /\ currentDate = DayEnd(Now)
        /\ timespan = "week"
        /\ ~canGoForward

\* The start of a session over generated data that reaches back past the week.
C20_SessionStartOverData ==
    /\ last.op = "mount"
    /\ fullData # {}
    /\ canGoBack
    /\ ~canGoForward

(***************************************************************************)
(* Navigator: the values the controls read                                 *)
(***************************************************************************)

\* C23: after every changeSpan, retreat, advance and regeneration of the data
\* the canGoBack and canGoForward read by the back and forward controls are
\* the values computed afresh from the current anchor, span, data and now.
C23_ControlsReadFreshValues ==
    [][clock' = clock =>
         /\ canGoBackShown' = canGoBack'
         /\ canGoForwardShown' = canGoForward']_vars

\* C24: regenerating the sample data leaves a generated data set and nothing
\* else as the data, the anchor at 23:59:59.999 of today and the span as it
\* was; right after it canAdvance is false.
C24_RegenerateResetsToToday ==
    last.op = "generate" =>
        /\ fullData \in generateFullDemoData
        /\ currentDate = DayEnd(Now)
        /\ timespan = last.span
        /\ ~canGoForward
        /\ ~canGoForwardShown

\* The data regenerated on a span other than the week, from a window in the past.
C24_RegeneratedAwayFromToday ==
    /\ last.op = "generate"
    /\ last.date < DayEnd(Now)
    /\ timespan = "month"
    /\ fullData # {}

\* C25: in every state reached from the start of the session by changeSpan,
\* retreat and advance, retreat being called whether or not canRetreat holds,
\* the anchor is not later than 23:59:59.999 of now's day.
C25_AnchorNotAfterToday ==
    currentDate <= DayEnd(Now)

\* C26: over a non-empty data set retreat takes its clamping branch exactly
\* when canRetreat is false, on every span; so a retreat made through the back
\* control, enabled only while canRetreat is true, moves the anchor back by
\* exactly windowLength(span) days, to a window that starts no earlier than
\* earliestBound.
C26_RetreatClampsIffCannotRetreat ==
    /\ fullData # {} =>
          \A span \in TimeSpans :
              BackClamps(currentDate, span, fullData) <=> ~CanGoBackOf(fullData, currentDate, span)
    /\ last.op = "back" =>
          /\ ~last.clamped
          /\ currentDate = DaysBefore(last.date, windowLength(last.span))
          /\ windowStart >= EarliestBound(fullData)

\* The back control pressed for the last time it is enabled.
C26_LastEnabledRetreat ==
    /\ last.op = "back"
    /\ ~canGoBackShown
    /\ currentDate = DaysBefore(last.date, windowLength(timespan))
    /\ DayIndex(windowStart) > DayIndex(EarliestBound(fullData))

\* C27: in every reachable state, when the data holds an observation made
\* before the start of the current window, canRetreat is true.
C27_EarlierObservationCanBeReached ==
    (\E o \in fullData : o.timestamp < windowStart) => canGoBackShown

(***************************************************************************)
(* seedData                                                                *)
(***************************************************************************)

\* The entries kept by the mock storage or by the backend.
Stored == mockStorage \cup firestore

\* C21: every entry seedData adds for the day offset i is stored with a
\* timestamp on the calendar day i days before today, at a time between 07:00
\* and 22:59.
C21_SeededEntriesOnTheirDay ==
    \A e \in Stored :
        e.id \in DOMAIN seededDay =>
            /\ DayIndex(e.timestamp) = DayIndex(Now) - seededDay[e.id]
            /\ GetHours(e.timestamp) \in 7..22

(***************************************************************************)
(* Log store: no authenticated user                                        *)
(***************************************************************************)

\* C22: without a user, addEntry, updateEntry and deleteEntry set error to
\* 'User not authenticated', throw, and leave entries unchanged; fetchEntries
\* sets the same error and returns without changing entries.
C22_NoUserSetsErrorAndThrows ==
    (/\ ~lastStep.hadUser
     /\ lastStep.op \in {"fetchEntries", "addEntry", "updateEntry", "deleteEntry"}) =>
        /\ ~usingMockFirebase
        /\ logStore.error = "User not authenticated"
        /\ logStore.entries = lastStep.entriesBefore
        /\ lastStep.outcome =
               IF lastStep.op = "fetchEntries" THEN "resolved" ELSE "rejected"

\* updateEntry called after the user's session ended, entries being held.
C22_UpdateAfterSignOut ==
    /\ ~lastStep.hadUser
    /\ lastStep.op = "updateEntry"
    /\ logStore.entries # <<>>
    /\ lastStep.id \in EntryIdsOf(logStore)

(***************************************************************************)
(* Log store, mock storage: an id that is not in storage                   *)
(***************************************************************************)

\* 'Failed to update entry' / 'Failed to delete entry'
FailureMessage(op) ==
    IF op = "updateEntry" THEN "Failed to update entry" ELSE "Failed to delete entry"

\* C28: with the mock storage, updateEntry or deleteEntry with an id that is not
\* in storage sets error to 'Failed to update entry' / 'Failed to delete entry',
\* sets isLoading to false, rethrows, and leaves entries and the mock storage
\* unchanged; and only a call with such an id throws.
C28_MissingIdFailsAndChangesNothing ==
    (/\ usingMockFirebase
     /\ lastStep.op \in {"updateEntry", "deleteEntry"}) =>
        IF lastStep.outcome = "rejected"
        THEN /\ lastStep.id \notin Ids(lastStep.storageBefore)
             /\ logStore.error = FailureMessage(lastStep.op)
             /\ ~logStore.isLoading
             /\ logStore.entries = lastStep.entriesBefore
             /\ mockStorage = lastStep.storageBefore
        ELSE /\ lastStep.outcome = "resolved"
             /\ logStore.error = "null"
             /\ lastStep.op = "updateEntry" <=> lastStep.id \in Ids(mockStorage)

\* deleteEntry called with an id the storage, holding another, does not hold.
C28_DeleteOfMissingId ==
    /\ usingMockFirebase
    /\ lastStep.op = "deleteEntry"
    /\ lastStep.outcome = "rejected"
    /\ mockStorage # {}
    /\ logStore.entries # <<>>

(***************************************************************************)
(* Log store: overlapping calls                                            *)
(***************************************************************************)

\* The call of slot c has passed the check of the user and has not completed.
InFlight(c) == calls[c].pc \in Requests \cup {Done(pc) : pc \in Requests} \cup {Failed(pc) : pc \in Requests}

\* C29: isLoading is true in every state where at least one of fetchEntries,
\* addEntry, updateEntry, deleteEntry or generateSeedData has started its work
\* and has not completed, and false once all of them have completed.
C29_LoadingWhileAnyInFlight ==
    logStore.isLoading <=> \E c \in Slots : InFlight(c)

\* C30: with the backend, an entry whose addEntry call has resolved is present
\* in entries in every later state until it is deleted.
C30_AddedEntryStaysInEntries ==
    ~usingMockFirebase => added \subseteq EntryIdsOf(logStore)

====
